---------------------------- MODULE Spec2Model ----------------------------
(***************************************************************************)
(* A model of the drift detectors and of the documentation validator of    *)
(* autonomous-docs-mcp:                                                     *)
(*   examples/continuous-sync/sync-checker.js      (findFiles, analyzeSync) *)
(*   examples/github-actions/check-docs-sync.js    (checkSync)              *)
(*   src/analyzers/codebase-analyzer.ts            (CodebaseAnalyzer,       *)
(*                                                  DocumentationValidator) *)
(*   src/index.ts                                  (the CallTool handler)   *)
(*   examples/pre-commit/validate-docs.sh                                   *)
(*                                                                          *)
(* A path is a record [dir, stem, ext] relative to its root (./src or       *)
(* ./docs): dir the directory segments, stem and ext the file name split at *)
(* its last dot.  A tree is a function from the paths that exist to what    *)
(* version control and the filesystem know about each file.                 *)
(***************************************************************************)
EXTENDS Integers, Sequences, FiniteSets, TLC

VARIABLES srcTree, docTree, out, pages, vout

vars == <<srcTree, docTree, out, pages, vout>>

(***************************************************************************)
(* Bounds of the model and constants of the program.                       *)
(***************************************************************************)
\* At most this many files exist under ./src and ./docs together.
MaxFiles == 3
\* Documentation files are committed at the instants 0..MaxDocInstant.
MaxDocInstant == 1

\* The runs of sync-checker.js start at the clock instants 1..MaxClock.
MaxClock == 2

\* codebase-analyzer.ts:272, slice(0, depth === "quick" ? 10 : 100).
QuickLimit == 10
DepthLimit == 100

\* At most this many links, code blocks and flagged phrases (a localhost
\* URL, an image without alt text) are written in the pages together.
MaxMarks == 1

\* sync-checker.js:89 and check-docs-sync.js:37, the seconds of one day.
Day == 86400
\* sync-checker.js:96, daysBehind > 7 is 'high'.
HighAfter == 7
\* sync-checker.js:96, daysBehind > 3 is 'medium'.
MediumAfter == 3
\* sync-checker.js:135 and :144, slice(0, 5).
MaxListed == 5

Path(d, s, e) == [dir |-> d, stem |-> s, ext |-> e]

\* The source files the model can create, in the order findFiles walks them
\* (readdirSync lists a directory by name).
SrcOrder ==
    << Path(<<"api">>, "users", "ts"),
       Path(<<"api">>, "util", "py"),
       Path(<<"components">>, "Button", "tsx"),
       Path(<<"lib">>, "helper", "ts"),
       Path(<<"routes">>, "index", "js") >>

\* The documentation files the model can create, in walk order.
DocOrder ==
    << Path(<<"api">>, "users", "md"),
       Path(<<"api">>, "users", "mdx"),
       Path(<<"api">>, "util", "mdx"),
       Path(<<"components">>, "Button", "mdx"),
       Path(<<>>, "guide", "mdx"),
       Path(<<"routes">>, "index", "mdx") >>

Range(s) == {s[i] : i \in DOMAIN s}

SrcPaths == Range(SrcOrder)
DocPaths == Range(DocOrder)

\* Commit instants of source files: 0 and 1 second, and the first instant
\* of the days at which daysBehind changes its tier against a doc of
\* instant 0 or 1 (1 day, MediumAfter + 1 days, HighAfter + 1 days).
SrcInstants ==
    {0, 1} \cup {d * Day : d \in {1, MediumAfter + 1, HighAfter + 1}}

DocInstants == 0 .. MaxDocInstant

\* A file whose last commit and whose mtime are both instant t.
Committed(t) == [git |-> "commit", commit |-> t, mtime |-> t]

(***************************************************************************)
(* sync-checker.js                                                         *)
(***************************************************************************)
\* config.source, config.docs of parseArgs, after path.join normalised them.
SourceRoot == "src"
DocsRoot == "docs"

\* getLastModified: the %ct of git log -1, parseInt(...) || 0 of an empty
\* output, and the mtime in seconds when execSync throws.
getLastModified(tree, p) ==
    LET f == tree[p]
    IN  CASE f.git = "commit" -> f.commit
          [] f.git = "untracked" -> 0
          [] OTHER -> f.mtime

\* fs.existsSync of a path under a root.
existsSync(tree, p) == p \in DOMAIN tree

\* item.startsWith('.')
StartsWithDot(seg) == seg \in {".git", ".github", ".cache"}

\* The directories walk() descends into.
Walked(p) ==
    \A i \in DOMAIN p.dir :
        ~StartsWithDot(p.dir[i]) /\ p.dir[i] # "node_modules"

\* findFiles(dir, extensions): the files of the tree with one of the
\* extensions, in walk order.
findFiles(tree, order, extensions) ==
    SelectSeq(order,
              LAMBDA p : existsSync(tree, p) /\ Walked(p) /\ p.ext \in extensions)

\* relativePath.replace(/\.mdx?$/, '.ts')
DocToSource(p) ==
    IF p.ext \in {"md", "mdx"} THEN Path(p.dir, p.stem, "ts") ELSE p

\* relativePath.replace(/\.[jt]sx?$/, '.mdx')
SourceToDoc(p) ==
    IF p.ext \in {"js", "jsx", "ts", "tsx"} THEN Path(p.dir, p.stem, "mdx") ELSE p

\* fullPath.includes('/' + name + '/') for fullPath = path.join(root, p):
\* a directory segment name that a slash precedes.
Includes(root, p, name) ==
    LET segs == <<root>> \o p.dir
    IN  \E i \in 2 .. Len(segs) : segs[i] = name

DaysBehind(srcMod, docMod) == (srcMod - docMod) \div Day

IsOutdatedGe(daysBehind) == daysBehind >= 0

IsOutdatedGt1(daysBehind) == daysBehind > 1

\* sync-checker.js:91
IsOutdated(daysBehind) == daysBehind > 0

PriorityGe(daysBehind) ==
    IF daysBehind >= HighAfter THEN "high"
    ELSE IF daysBehind >= MediumAfter THEN "medium" ELSE "low"

\* sync-checker.js:96
Priority(daysBehind) ==
    IF daysBehind > HighAfter THEN "high"
    ELSE IF daysBehind > MediumAfter THEN "medium" ELSE "low"

\* The docs of the first loop that have a source equivalent.
Compared(docFiles, src) ==
    SelectSeq(docFiles, LAMBDA d : existsSync(src, DocToSource(d)))

DocDaysBehind(d, src, docs) ==
    DaysBehind(getLastModified(src, DocToSource(d)), getLastModified(docs, d))

\* results.outdated after the loop of sync-checker.js:78-103.
OutdatedEntries(docFiles, src, docs) ==
    LET hits == SelectSeq(Compared(docFiles, src),
                          LAMBDA d : IsOutdated(DocDaysBehind(d, src, docs)))
    IN  [i \in DOMAIN hits |->
            [doc |-> hits[i],
             source |-> DocToSource(hits[i]),
             daysBehind |-> DocDaysBehind(hits[i], src, docs),
             priority |-> Priority(DocDaysBehind(hits[i], src, docs))]]

UpToDateCountCompared(docFiles, src, docs) == Len(Compared(docFiles, src))

UpToDateCountAll(docFiles, src, docs) ==
    Len(docFiles) - Len(OutdatedEntries(docFiles, src, docs))

\* results.summary.upToDate after the same loop.
UpToDateCount(docFiles, src, docs) ==
    Len(SelectSeq(Compared(docFiles, src),
                  LAMBDA d : ~IsOutdated(DocDaysBehind(d, src, docs))))

\* sync-checker.js:106-110
IsApiFile(p) ==
    \/ Includes(SourceRoot, p, "api")
    \/ Includes(SourceRoot, p, "routes")
    \/ Includes(SourceRoot, p, "components")

\* results.missing after the loop of sync-checker.js:112-127.
MissingEntries(sourceFiles, docs) ==
    LET hits == SelectSeq(sourceFiles,
                          LAMBDA s : IsApiFile(s) /\ ~existsSync(docs, SourceToDoc(s)))
    IN  [i \in DOMAIN hits |->
            [source |-> hits[i],
             expectedDoc |-> SourceToDoc(hits[i]),
             priority |-> IF Includes(SourceRoot, hits[i], "api")
                          THEN "high" ELSE "medium"]]

Slice(s, n) == SubSeq(s, 1, IF Len(s) < n THEN Len(s) ELSE n)

DeriveStatusOutdatedLast(outdated, missing) ==
    IF outdated # <<>> THEN "outdated"
    ELSE IF missing # <<>> THEN "incomplete" ELSE "synced"

\* sync-checker.js:64, 130-131, 139-140: 'synced', then 'outdated', then
\* 'incomplete' overwrites it.
DeriveStatus(outdated, missing) ==
    LET s0 == "synced"
        s1 == IF Len(outdated) > 0 THEN "outdated" ELSE s0
    IN  IF Len(missing) > 0 THEN "incomplete" ELSE s1

\* sync-checker.js:129-146
Recommendations(outdated, missing) ==
    (IF Len(outdated) > 0
     THEN << [type |-> "update", count |-> Len(outdated),
              files |-> [i \in DOMAIN Slice(outdated, MaxListed) |-> outdated[i].doc]] >>
     ELSE <<>>)
    \o
    (IF Len(missing) > 0
     THEN << [type |-> "create", count |-> Len(missing),
              files |-> [i \in DOMAIN Slice(missing, MaxListed) |-> missing[i].expectedDoc]] >>
     ELSE <<>>)

\* analyzeSync(config): the report, without its timestamp.
analyzeSync(src, docs) ==
    LET sourceFiles == findFiles(src, SrcOrder, {"ts", "tsx", "js", "jsx", "py"})
        docFiles == findFiles(docs, DocOrder, {"md", "mdx"})
        outdated == OutdatedEntries(docFiles, src, docs)
        missing == MissingEntries(sourceFiles, docs)
    IN  [status |-> DeriveStatus(outdated, missing),
         summary |-> [totalSourceFiles |-> Len(sourceFiles),
                      totalDocFiles |-> Len(docFiles),
                      outdatedDocs |-> Len(outdated),
                      missingDocs |-> Len(missing),
                      upToDate |-> UpToDateCount(docFiles, src, docs)],
         outdated |-> outdated,
         missing |-> missing,
         recommendations |-> Recommendations(outdated, missing)]

analyzeSyncAgeing(now, src, docs) ==
    LET results == analyzeSync(src, docs)
    IN  [timestamp |-> now,
         status |-> results.status,
         summary |-> results.summary,
         outdated |-> [i \in DOMAIN results.outdated |->
                          [results.outdated[i] EXCEPT !.daysBehind = @ + now]],
         missing |-> results.missing,
         recommendations |-> results.recommendations]

\* analyzeSync(config) at the instant now of new Date(): the report with
\* its timestamp.
analyzeSyncAt(now, src, docs) ==
    LET results == analyzeSync(src, docs)
    IN  [timestamp |-> now,
         status |-> results.status,
         summary |-> results.summary,
         outdated |-> results.outdated,
         missing |-> results.missing,
         recommendations |-> results.recommendations]

\* fs.existsSync of a root: ./src and ./docs are directories, empty or not.
RootExists(dir) == dir \in {SourceRoot, DocsRoot}

PathsFoundDocsOnly(config) == RootExists(config.docs)

\* sync-checker.js:154-162, the two tests main() makes before it analyzes.
PathsFound(config) == RootExists(config.docs) /\ RootExists(config.source)

\* No report was written to config.output.
NoFile == [written |-> FALSE]

\* main(): the exit code, whether analyzeSync was called, and the report
\* written to config.output.
main(config, now, src, docs) ==
    IF ~PathsFound(config)
    THEN [exit |-> 1, analyzed |-> FALSE, file |-> NoFile]
    ELSE LET results == analyzeSyncAt(now, src, docs)
         IN  [exit |-> IF results.status = "synced" THEN 0 ELSE 1,
              analyzed |-> TRUE,
              file |-> results]

(***************************************************************************)
(* check-docs-sync.js                                                      *)
(***************************************************************************)
\* srcFile.replace('src/', 'docs/').replace('.ts', '.mdx')
CheckDocFile(s) == IF s.ext = "ts" THEN Path(s.dir, s.stem, "mdx") ELSE s

\* check-docs-sync.js:33
CheckOutdated(srcMod, docMod) == srcMod > docMod

\* checkSync(): git ls-files src/**/*.ts and docs/**/*.mdx, the loop of
\* check-docs-sync.js:25-48, and the report written to sync-check.json.
checkSync(src, docs) ==
    LET srcFiles == SelectSeq(SrcOrder, LAMBDA p : existsSync(src, p) /\ p.ext = "ts")
        docsFiles == SelectSeq(DocOrder, LAMBDA p : existsSync(docs, p) /\ p.ext = "mdx")
        paired == SelectSeq(srcFiles, LAMBDA s : CheckDocFile(s) \in Range(docsFiles))
        stale == SelectSeq(paired,
                     LAMBDA s : CheckOutdated(src[s].commit, docs[CheckDocFile(s)].commit))
        outdated == [i \in DOMAIN stale |->
                        [source |-> stale[i],
                         doc |-> CheckDocFile(stale[i]),
                         daysBehind |-> DaysBehind(src[stale[i]].commit,
                                                   docs[CheckDocFile(stale[i])].commit)]]
        missing == SelectSeq(srcFiles, LAMBDA s : CheckDocFile(s) \notin Range(docsFiles))
    IN  [inSync |-> (outdated = <<>> /\ missing = <<>>),
         outdated |-> outdated,
         missing |-> missing,
         recommendations |-> <<>>]

(***************************************************************************)
(* codebase-analyzer.ts: CodebaseAnalyzer.syncWithSource                   *)
(***************************************************************************)
syncWithSource(docsPath, sourcePath, options) ==
    [status |-> "synced", outdated |-> <<>>, updated |-> <<>>, suggestions |-> <<>>]

(***************************************************************************)
(* codebase-analyzer.ts: DocumentationValidator, and validate-docs.sh      *)
(*                                                                          *)
(* A page is what the checks read of a documentation file's text:          *)
(*   fence        the first line is ---                                     *)
(*   yamlOk       gray-matter parses the block between the fences           *)
(*   title, description                                                     *)
(*                "absent" (no such key), "empty" (key: with no value) or   *)
(*                "text"                                                     *)
(*   links        the [text](url) links, in order                           *)
(*   blocks       the fenced code blocks, in order                          *)
(*   localhost    the text holds http://localhost                           *)
(*   noAlt        the text holds an image ![](img.png)                      *)
(*   readable     fs.readFile of the file succeeds                          *)
(***************************************************************************)
\* The .md and .mdx files the model can create under ./docs, in the order
\* glob returns them.
PageOrder ==
    << Path(<<"api">>, "missing-page", "mdx"),
       Path(<<"api">>, "users", "mdx"),
       Path(<<>>, "guide", "mdx"),
       Path(<<>>, "missing-page", "md"),
       Path(<<>>, "missing-page", "mdx"),
       Path(<<"missing-page">>, "index", "mdx") >>

\* The pages whose text the model writes: one in a directory, one in the
\* documentation root.  The others are only created and removed.
PagePaths == {Path(<<"api">>, "users", "mdx"), Path(<<>>, "guide", "mdx")}

Values == {"absent", "empty", "text"}

\* The links a page can hold: https://example.com, /guide and guide.
Links ==
    { [kind |-> "external", dir |-> <<>>, name |-> "example"],
      [kind |-> "root", dir |-> <<>>, name |-> "guide"],
      [kind |-> "relative", dir |-> <<>>, name |-> "guide"] }

\* The links ./missing-page and /missing-page.
MissingPageLinks ==
    { [kind |-> "relative", dir |-> <<>>, name |-> "missing-page"],
      [kind |-> "root", dir |-> <<>>, name |-> "missing-page"] }

\* A fenced block: whether it names a language, whether its body is blank.
Blocks == [lang : BOOLEAN, blank : BOOLEAN]

Marks(c) ==
    Len(c.links) + Len(c.blocks)
        + (IF c.localhost THEN 1 ELSE 0) + (IF c.noAlt THEN 1 ELSE 0)

\* The frontmatter a page can have: without a block, or with one that does
\* not parse, there are no keys.
FrontMatters ==
    { f \in [fence : BOOLEAN, yamlOk : BOOLEAN, title : Values, description : Values] :
        /\ (~f.fence => f.yamlOk)
        /\ (~f.fence \/ ~f.yamlOk) => (f.title = "absent" /\ f.description = "absent") }

\* A page of frontmatter f and nothing else the checks read; fs.readFile
\* can read it.
NewPage(f) ==
    [fence |-> f.fence, yamlOk |-> f.yamlOk, title |-> f.title,
     description |-> f.description, links |-> <<>>, blocks |-> <<>>,
     localhost |-> FALSE, noAlt |-> FALSE, readable |-> TRUE]

TreeMarks(tree) ==
    LET present == SelectSeq(PageOrder, LAMBDA p : p \in DOMAIN tree)
        sum[i \in 0 .. Len(present)] ==
            IF i = 0 THEN 0 ELSE sum[i - 1] + Marks(tree[present[i]])
    IN  sum[Len(present)]

\* JavaScript's !value of a frontmatter key.
Falsy(v) == v # "text"

\* parsed.data of matter(content): no keys without a frontmatter block.
Data(c) ==
    IF c.fence
    THEN [title |-> c.title, description |-> c.description]
    ELSE [title |-> "absent", description |-> "absent"]

TitleErrorsStrictOnly(file, data, options) ==
    IF Falsy(data.title) /\ options.strict
    THEN << [file |-> file, type |-> "missing_frontmatter",
             field |-> "title", severity |-> "error"] >>
    ELSE <<>>

\* codebase-analyzer.ts:552-559
TitleErrors(file, data, options) ==
    IF Falsy(data.title)
    THEN << [file |-> file, type |-> "missing_frontmatter",
             field |-> "title", severity |-> "error"] >>
    ELSE <<>>

\* codebase-analyzer.ts:561-568
DescriptionErrors(file, data, options) ==
    IF Falsy(data.description) /\ options.strict
    THEN << [file |-> file, type |-> "missing_frontmatter",
             field |-> "description", severity |-> "warning"] >>
    ELSE <<>>

\* validateFrontmatter: matter(content) throws on a block that does not
\* parse, and the catch records invalid_frontmatter.
validateFrontmatter(file, c, options) ==
    IF c.fence /\ ~c.yamlOk
    THEN << [file |-> file, type |-> "invalid_frontmatter",
             field |-> "", severity |-> "error"] >>
    ELSE TitleErrors(file, Data(c), options)
           \o DescriptionErrors(file, Data(c), options)

\* fs.pathExists of a path under docsPath: a page, or a directory that
\* holds one.
IsPrefix(a, b) == Len(a) <= Len(b) /\ SubSeq(b, 1, Len(a)) = a

pathExists(tree, dir, name, ext) ==
    IF ext = ""
    THEN \E q \in DOMAIN tree : IsPrefix(dir \o <<name>>, q.dir)
    ELSE Path(dir, name, ext) \in DOMAIN tree

\* codebase-analyzer.ts:597-614: the target under docsPath ('/...') or
\* under the directory of the file, then target, target.mdx, target.md and
\* target/index.mdx.
LinkResolves(tree, file, l) ==
    LET dir == IF l.kind = "root" THEN l.dir ELSE file.dir \o l.dir
    IN  \/ pathExists(tree, dir, l.name, "")
        \/ pathExists(tree, dir, l.name, "mdx")
        \/ pathExists(tree, dir, l.name, "md")
        \/ pathExists(tree, dir \o <<l.name>>, "index", "mdx")

\* validateLinks
validateLinks(file, c, tree) ==
    LET broken == SelectSeq(c.links,
                      LAMBDA l : l.kind # "external" /\ ~LinkResolves(tree, file, l))
    IN  [i \in DOMAIN broken |->
            [file |-> file, type |-> "broken_link",
             field |-> broken[i].name, severity |-> "error", url |-> broken[i]]]

\* validateCodeExamples: the warnings of one block.
BlockWarnings(file, b) ==
    (IF ~b.lang THEN << [file |-> file, type |-> "missing_code_language"] >> ELSE <<>>)
    \o (IF b.blank THEN << [file |-> file, type |-> "empty_code_block"] >> ELSE <<>>)

validateCodeExamples(file, c) ==
    LET acc[i \in 0 .. Len(c.blocks)] ==
            IF i = 0 THEN <<>> ELSE acc[i - 1] \o BlockWarnings(file, c.blocks[i])
    IN  acc[Len(c.blocks)]

\* checkCommonIssues
checkCommonIssues(file, c) ==
    (IF c.localhost THEN << [file |-> file, type |-> "absolute_internal_url"] >> ELSE <<>>)
    \o (IF c.noAlt THEN << [file |-> file, type |-> "missing_alt_text"] >> ELSE <<>>)

IsValidNoWarnings(errors, warnings) == Len(errors) = 0 /\ Len(warnings) = 0

\* codebase-analyzer.ts:529
IsValid(errors, warnings) == Len(errors) = 0

ValidateFileCountingWarnings(file, c, tree, options) ==
    LET frontmatterErrors == validateFrontmatter(file, c, options)
        linkErrors == IF options.checkLinks THEN validateLinks(file, c, tree) ELSE <<>>
        codeErrors ==
            IF options.checkCodeExamples THEN validateCodeExamples(file, c) ELSE <<>>
        commonIssues == checkCommonIssues(file, c)
    IN  [errors |-> frontmatterErrors \o linkErrors,
         warnings |-> codeErrors \o commonIssues,
         counted |-> Len(frontmatterErrors \o linkErrors \o codeErrors \o commonIssues) > 0]

ValidateFileShortCircuit(file, c, tree, options) ==
    LET frontmatterErrors == validateFrontmatter(file, c, options)
        linkErrors == IF options.checkLinks THEN validateLinks(file, c, tree) ELSE <<>>
        codeErrors ==
            IF options.checkCodeExamples THEN validateCodeExamples(file, c) ELSE <<>>
        commonIssues == checkCommonIssues(file, c)
    IN  IF Len(frontmatterErrors) > 0
        THEN [errors |-> frontmatterErrors, warnings |-> <<>>, counted |-> TRUE]
        ELSE [errors |-> linkErrors,
              warnings |-> codeErrors \o commonIssues,
              counted |-> options.checkLinks /\ Len(linkErrors) > 0]

\* The body of the loop of validate for one file: what it appends to
\* errors and to warnings, and whether it counts the file.
ValidateFile(file, c, tree, options) ==
    LET frontmatterErrors == validateFrontmatter(file, c, options)
        linkErrors == IF options.checkLinks THEN validateLinks(file, c, tree) ELSE <<>>
        codeErrors ==
            IF options.checkCodeExamples THEN validateCodeExamples(file, c) ELSE <<>>
        commonIssues == checkCommonIssues(file, c)
    IN  [errors |-> frontmatterErrors \o linkErrors,
         warnings |-> codeErrors \o commonIssues,
         counted |-> (Len(frontmatterErrors) > 0
                        \/ (options.checkLinks /\ Len(linkErrors) > 0))]

\* glob("**/*.{md,mdx}", {cwd: docsPath, absolute: false}): no ignore
\* option; ** does not enter a directory whose name starts with a dot.
globMd(tree, order) ==
    SelectSeq(order,
              LAMBDA p : /\ p \in DOMAIN tree
                         /\ p.ext \in {"md", "mdx"}
                         /\ \A i \in DOMAIN p.dir : ~StartsWithDot(p.dir[i]))

\* A promise that rejects: the error of the call that threw.
Rejected(syscall) == [rejected |-> syscall]

\* Whether a result is a ValidationResult, not a rejection.
Returned(result) == "valid" \in DOMAIN result

\* DocumentationValidator.validate(docsPath, options), tree being what is
\* under docsPath and order the order in which glob lists its files.  fs.readFile (line 493) is outside every try block: the
\* first file that cannot be read rejects the whole call.
validateOrdered(tree, order, options) ==
    LET mdxFiles == globMd(tree, order)
        one == [i \in DOMAIN mdxFiles |->
                   ValidateFile(mdxFiles[i], tree[mdxFiles[i]], tree, options)]
        errors[i \in 0 .. Len(mdxFiles)] ==
            IF i = 0 THEN <<>> ELSE errors[i - 1] \o one[i].errors
        warnings[i \in 0 .. Len(mdxFiles)] ==
            IF i = 0 THEN <<>> ELSE warnings[i - 1] \o one[i].warnings
        end == [errors |-> errors[Len(mdxFiles)],
                warnings |-> warnings[Len(mdxFiles)],
                filesWithErrors |->
                    Cardinality({i \in DOMAIN mdxFiles : one[i].counted})]
    IN  IF \E i \in DOMAIN mdxFiles : ~tree[mdxFiles[i]].readable
        THEN Rejected("readFile")
        ELSE [valid |-> IsValid(end.errors, end.warnings),
              errors |-> end.errors,
              warnings |-> end.warnings,
              summary |-> [total_files |-> Len(mdxFiles),
                           files_with_errors |-> end.filesWithErrors,
                           total_errors |-> Len(end.errors),
                           total_warnings |-> Len(end.warnings)]]

\* validate over the pages the model creates by hand.
validate(tree, options) == validateOrdered(tree, PageOrder, options)

\* validate-docs.sh:52: none of docs/$target, docs/$target.mdx and
\* docs/$target.md is a regular file.
ShBroken(tree, l) ==
    /\ l.kind # "external"
    /\ Path(l.dir, l.name, "mdx") \notin DOMAIN tree
    /\ Path(l.dir, l.name, "md") \notin DOMAIN tree

\* validate-docs.sh:21-70 for one staged file: what it adds to ERRORS and
\* to WARNINGS.  The image of noAlt is a [..](..) line with a target that
\* is no file; a closed code block has a line that ends in ```.
ShFile(tree, c) ==
    [errors |->
        (IF ~c.fence THEN 1 ELSE IF c.title = "absent" THEN 1 ELSE 0)
        + Len(SelectSeq(c.links, LAMBDA l : ShBroken(tree, l)))
        + (IF c.noAlt THEN 1 ELSE 0),
     warnings |->
        (IF c.fence /\ c.description = "absent" THEN 1 ELSE 0)
        + (IF Len(c.blocks) > 0 THEN 1 ELSE 0)
        + (IF c.localhost THEN 1 ELSE 0)]

\* validate-docs.sh:72-83
ShExit(errors, warnings) == IF errors > 0 THEN 1 ELSE 0

\* validate-docs.sh over the staged .md and .mdx files.
validateDocsSh(tree, staged) ==
    LET docs == SelectSeq(PageOrder, LAMBDA p : p \in staged)
        acc[i \in 0 .. Len(docs)] ==
            IF i = 0
            THEN [errors |-> 0, warnings |-> 0]
            ELSE [errors |-> acc[i - 1].errors + ShFile(tree, tree[docs[i]]).errors,
                  warnings |-> acc[i - 1].warnings + ShFile(tree, tree[docs[i]]).warnings]
        end == acc[Len(docs)]
    IN  IF staged = {}
        THEN [errors |-> 0, warnings |-> 0, exit |-> 0]
        ELSE [errors |-> end.errors, warnings |-> end.warnings,
              exit |-> ShExit(end.errors, end.warnings)]

(***************************************************************************)
(* CodebaseAnalyzer (codebase-analyzer.ts:98-341) and the CallTool handler *)
(* of index.ts, over the files under the project root.                     *)
(***************************************************************************)
\* The files the model can create under the project root, in the order a
\* walk lists them.
ProjectOrder ==
    << Path(<<".git">>, "hook", "js"),
       Path(<<>>, "README", "md"),
       Path(<<"build">>, "out", "js"),
       Path(<<"dist">>, "bundle.min", "js"),
       Path(<<"docs">>, "guide", "mdx"),
       Path(<<"node_modules", "pkg">>, "README", "md"),
       Path(<<"node_modules", "pkg">>, "index", "js"),
       Path(<<"src", "api">>, "users", "ts"),
       Path(<<"src", "components">>, "Button", "tsx"),
       Path(<<"src", "lib">>, "app.min", "js") >>

ProjectPaths == Range(ProjectOrder)

\* process.cwd(), the project root.
Cwd == "."

\* An optional argument: undefined, or a value.
Absent == [given |-> FALSE]

Given(v) == [given |-> TRUE, value |-> v]

\* The glob patterns of the model: root/**/*.ext to match, and **/name/**
\* and **/*.min.js to ignore.
Glob(r, e) == [root |-> r, ext |-> e]

DirPattern(name) == [kind |-> "dir", name |-> name]

MinJsPattern == [kind |-> "min.js"]

\* codebase-analyzer.ts:105-114
defaultExcludes ==
    << DirPattern("node_modules"), DirPattern("dist"), DirPattern("build"),
       DirPattern(".git"), DirPattern("venv"), DirPattern("__pycache__"),
       MinJsPattern, DirPattern(".next") >>

\* codebase-analyzer.ts:165-176
defaultPatterns ==
    << Glob(<<>>, "ts"), Glob(<<>>, "tsx"), Glob(<<>>, "js"), Glob(<<>>, "jsx"),
       Glob(<<>>, "py"), Glob(<<>>, "go"), Glob(<<>>, "rs"), Glob(<<>>, "java"),
       Glob(<<>>, "md"), Glob(<<>>, "mdx") >>

\* The file name ends in .min.js.
IsMinJs(p) == p.ext = "js" /\ p.stem \in {"bundle.min", "app.min"}

\* A path matches one of the ignore patterns.
Ignored(p, ignore) ==
    \E i \in DOMAIN ignore :
        IF ignore[i].kind = "dir"
        THEN \E j \in DOMAIN p.dir : p.dir[j] = ignore[i].name
        ELSE IsMinJs(p)

\* A path matches root/**/*.ext: ** does not enter a directory whose name
\* starts with a dot.
Matches(p, pattern) ==
    /\ IsPrefix(pattern.root, p.dir)
    /\ p.ext = pattern.ext
    /\ \A i \in DOMAIN p.dir : i > Len(pattern.root) => ~StartsWithDot(p.dir[i])

\* glob(pattern, {cwd: rootPath, ignore: excludePatterns, absolute: false})
glob(pattern, tree, ignore) ==
    SelectSeq(ProjectOrder,
              LAMBDA p : p \in DOMAIN tree /\ Matches(p, pattern) /\ ~Ignored(p, ignore))

\* [...new Set(allFiles)]: the first occurrence of each path, in order.
Dedup(seq) ==
    LET acc[i \in 0 .. Len(seq)] ==
            IF i = 0 THEN <<>>
            ELSE IF \E j \in DOMAIN acc[i - 1] : acc[i - 1][j] = seq[i]
                 THEN acc[i - 1]
                 ELSE Append(acc[i - 1], seq[i])
    IN  acc[Len(seq)]

\* discoverFiles(rootPath, includePatterns, excludePatterns), tree being
\* what is under rootPath.
discoverFiles(tree, includePatterns, excludePatterns) ==
    LET patterns == IF includePatterns.given THEN includePatterns.value
                    ELSE defaultPatterns
        allFiles[i \in 0 .. Len(patterns)] ==
            IF i = 0 THEN <<>>
            ELSE allFiles[i - 1] \o glob(patterns[i], tree, excludePatterns)
    IN  Dedup(allFiles[Len(patterns)])

\* The words a path segment holds, for f.includes(word) and for
\* f.toLowerCase().includes("readme").
Words(seg) ==
    CASE seg = "api" -> {"api"}
      [] seg = "routes" -> {"route"}
      [] seg = "components" -> {"component"}
      [] seg = "README" -> {"readme"}
      [] OTHER -> {}

PathIncludes(p, word) ==
    \/ \E i \in DOMAIN p.dir : word \in Words(p.dir[i])
    \/ word \in Words(p.stem)

\* extractAPIs(files, depth): every entry gets a description.
extractAPIs(files, depth) ==
    LET apiFiles == SelectSeq(files,
                        LAMBDA f : \/ PathIncludes(f, "api")
                                   \/ PathIncludes(f, "route")
                                   \/ PathIncludes(f, "endpoint")
                                   \/ f.ext = "ts"
                                   \/ f.ext = "py")
        taken == Slice(apiFiles, IF depth = "quick" THEN QuickLimit ELSE DepthLimit)
    IN  [i \in DOMAIN taken |->
            [name |-> taken[i].stem, type |-> "endpoint", file |-> taken[i],
             description |-> "text"]]

\* extractComponents(files): the entries have no description.
extractComponents(files) ==
    LET componentFiles == SelectSeq(files,
                              LAMBDA f : \/ f.ext = "tsx"
                                         \/ f.ext = "jsx"
                                         \/ PathIncludes(f, "component"))
    IN  [i \in DOMAIN componentFiles |->
            [name |-> componentFiles[i].stem, type |-> "react",
             file |-> componentFiles[i]]]

\* The file of the README need, "README.md".
ReadmeFile == Path(<<>>, "README", "md")

\* analyzeDocumentationNeeds(files, apis, components): components is not
\* read.
analyzeDocumentationNeeds(files, apis, components) ==
    LET hasReadme == \E i \in DOMAIN files : PathIncludes(files[i], "readme")
        undescribed == SelectSeq(apis, LAMBDA api : Falsy(api.description))
    IN  (IF ~hasReadme
         THEN << [type |-> "missing", file |-> ReadmeFile,
                  item |-> "Project README", priority |-> "high"] >>
         ELSE <<>>)
        \o [i \in DOMAIN undescribed |->
                [type |-> "missing", file |-> undescribed[i].file,
                 item |-> undescribed[i].name, priority |-> "medium"]]

\* analyze(rootPath, options), tree being what is under rootPath: the
\* files of structure, apis, components and documentation_needs.
analyze(tree, options) ==
    LET excludePatterns ==
            defaultExcludes
                \o (IF options.excludePatterns.given
                    THEN options.excludePatterns.value ELSE <<>>)
        files == discoverFiles(tree, options.includePatterns, excludePatterns)
        apis == extractAPIs(files, options.depth)
        components == extractComponents(files)
    IN  [files |-> files,
         apis |-> apis,
         components |-> components,
         documentation_needs |-> analyzeDocumentationNeeds(files, apis, components)]

\* What is under a root path: the project under process.cwd(), nothing
\* under a directory that does not exist.
ProjectAt(rootPath, tree) == IF rootPath = Cwd THEN tree ELSE << >>

\* new McpError(code, ...)
McpError(code) == [error |-> code]

\* The CallTool handler for name "analyze_codebase" (index.ts:262-288):
\* args is request.params.arguments.
CallToolAnalyzeCodebase(args, tree) ==
    IF ~args.given
    THEN McpError("InvalidParams")
    ELSE LET a == args.value
         IN  [content |->
                 analyze(ProjectAt(IF a.path.given THEN a.path.value ELSE Cwd, tree),
                         [includePatterns |-> a.include_patterns,
                          excludePatterns |-> a.exclude_patterns,
                          depth |-> IF a.depth.given THEN a.depth.value
                                    ELSE "standard"])]

(***************************************************************************)
(* The trees and the runs of the tools over them.                          *)
(***************************************************************************)
Idle == [tool |-> "none"]

FileCount == Cardinality(DOMAIN srcTree) + Cardinality(DOMAIN docTree)

Put(tree, p, f) == [q \in DOMAIN tree \cup {p} |-> IF q = p THEN f ELSE tree[q]]

Drop(tree, p) == [q \in DOMAIN tree \ {p} |-> tree[q]]

\* A commit that creates or changes a source file.
CommitSource ==
    /\ out = Idle
    /\ \E p \in SrcPaths, t \in SrcInstants :
          /\ p \in DOMAIN srcTree \/ FileCount < MaxFiles
          /\ srcTree' = Put(srcTree, p, Committed(t))
    /\ UNCHANGED <<docTree, out, pages, vout>>

\* A commit that creates or changes a documentation file.
CommitDoc ==
    /\ out = Idle
    /\ \E p \in DocPaths, t \in DocInstants :
          /\ p \in DOMAIN docTree \/ FileCount < MaxFiles
          /\ docTree' = Put(docTree, p, Committed(t))
    /\ UNCHANGED <<srcTree, out, pages, vout>>

RemoveSource ==
    /\ out = Idle
    /\ \E p \in DOMAIN srcTree : srcTree' = Drop(srcTree, p)
    /\ UNCHANGED <<docTree, out, pages, vout>>

RemoveDoc ==
    /\ out = Idle
    /\ \E p \in DOMAIN docTree : docTree' = Drop(docTree, p)
    /\ UNCHANGED <<srcTree, out, pages, vout>>

\* node sync-checker.js: main() past its two existsSync checks.
RunSyncChecker ==
    /\ out = Idle
    /\ out' = [tool |-> "analyzeSync", report |-> analyzeSync(srcTree, docTree)]
    /\ UNCHANGED <<srcTree, docTree, pages, vout>>

\* node check-docs-sync.js
RunCheckDocsSync ==
    /\ out = Idle
    /\ out' = [tool |-> "checkSync", report |-> checkSync(srcTree, docTree)]
    /\ UNCHANGED <<srcTree, docTree, pages, vout>>

\* The CallTool handler's case "sync_documentation" (index.ts:371-388).
CallSyncDocumentation ==
    /\ out = Idle
    /\ \E autoUpdate \in BOOLEAN :
          out' = [tool |-> "sync_documentation",
                  report |-> syncWithSource(DocsRoot, SourceRoot,
                                            [autoUpdate |-> autoUpdate])]
    /\ UNCHANGED <<srcTree, docTree, pages, vout>>

\* The process has exited; the trees can change again.
Finish ==
    /\ out # Idle
    /\ out' = Idle
    /\ UNCHANGED <<srcTree, docTree, pages, vout>>

ValidationOptions == [strict : BOOLEAN, checkLinks : BOOLEAN, checkCodeExamples : BOOLEAN]

\* A documentation file is created, or its frontmatter rewritten.
WriteFrontmatter ==
    /\ vout = Idle
    /\ \E p \in PagePaths, f \in FrontMatters :
          pages' = Put(pages, p,
                       IF p \in DOMAIN pages
                       THEN [pages[p] EXCEPT !.fence = f.fence, !.yamlOk = f.yamlOk,
                                             !.title = f.title,
                                             !.description = f.description]
                       ELSE NewPage(f))
    /\ UNCHANGED <<srcTree, docTree, out, vout>>

\* A link is appended to a page.
AddLink ==
    /\ vout = Idle
    /\ TreeMarks(pages) < MaxMarks
    /\ \E p \in DOMAIN pages, l \in Links :
          pages' = [pages EXCEPT ![p].links = Append(@, l)]
    /\ UNCHANGED <<srcTree, docTree, out, vout>>

\* A fenced code block is appended to a page.
AddBlock ==
    /\ vout = Idle
    /\ TreeMarks(pages) < MaxMarks
    /\ \E p \in DOMAIN pages, b \in Blocks :
          pages' = [pages EXCEPT ![p].blocks = Append(@, b)]
    /\ UNCHANGED <<srcTree, docTree, out, vout>>

\* A http://localhost URL is written into a page.
AddLocalhost ==
    /\ vout = Idle
    /\ TreeMarks(pages) < MaxMarks
    /\ \E p \in DOMAIN pages :
          /\ ~pages[p].localhost
          /\ pages' = [pages EXCEPT ![p].localhost = TRUE]
    /\ UNCHANGED <<srcTree, docTree, out, vout>>

\* An image without alt text is written into a page.
AddImage ==
    /\ vout = Idle
    /\ TreeMarks(pages) < MaxMarks
    /\ \E p \in DOMAIN pages :
          /\ ~pages[p].noAlt
          /\ pages' = [pages EXCEPT ![p].noAlt = TRUE]
    /\ UNCHANGED <<srcTree, docTree, out, vout>>

RemovePage ==
    /\ vout = Idle
    /\ \E p \in DOMAIN pages : pages' = Drop(pages, p)
    /\ UNCHANGED <<srcTree, docTree, out, vout>>

\* The validate_documentation tool: DocumentationValidator.validate.
RunValidate ==
    /\ vout = Idle
    /\ \E options \in ValidationOptions :
          vout' = [tool |-> "validate", options |-> options,
                   result |-> validate(pages, options)]
    /\ UNCHANGED <<srcTree, docTree, out, pages>>

\* The pre-commit hook runs validate-docs.sh over the staged pages.
RunValidateDocsSh ==
    /\ vout = Idle
    /\ \E staged \in SUBSET DOMAIN pages :
          vout' = [tool |-> "validate-docs.sh", staged |-> staged,
                   result |-> validateDocsSh(pages, staged)]
    /\ UNCHANGED <<srcTree, docTree, out, pages>>

FinishValidation ==
    /\ vout # Idle
    /\ vout' = Idle
    /\ UNCHANGED <<srcTree, docTree, out, pages>>

\* What version control and the filesystem can know about a file: a last
\* commit, no commit although the file is in a repository (git log prints
\* nothing and exits 0), or a git command that fails (no repository).
CheckInstants == {0, Day}

FileInfos ==
    {f \in [git : {"commit", "untracked", "failure"},
            commit : CheckInstants, mtime : CheckInstants] :
        f.git # "commit" => f.commit = 0}

CheckSrcPaths == {Path(<<"api">>, "users", "ts"), Path(<<"api">>, "util", "py")}

CheckDocPaths == {Path(<<"api">>, "users", "mdx"), Path(<<>>, "guide", "mdx")}

\* A source file is written, committed or not.
WriteSource ==
    /\ out = Idle
    /\ \E p \in CheckSrcPaths, f \in FileInfos :
          /\ p \in DOMAIN srcTree \/ FileCount < MaxFiles
          /\ srcTree' = Put(srcTree, p, f)
    /\ UNCHANGED <<docTree, out, pages, vout>>

\* A documentation file is written, committed or not.
WriteDoc ==
    /\ out = Idle
    /\ \E p \in CheckDocPaths, f \in FileInfos :
          /\ p \in DOMAIN docTree \/ FileCount < MaxFiles
          /\ docTree' = Put(docTree, p, f)
    /\ UNCHANGED <<srcTree, out, pages, vout>>

\* getLastModified(filePath) of a file that findFiles found.
StatFile ==
    /\ out = Idle
    /\ \E tree \in {srcTree, docTree} :
          \E p \in DOMAIN tree :
              out' = [tool |-> "getLastModified", info |-> tree[p],
                      result |-> getLastModified(tree, p)]
    /\ UNCHANGED <<srcTree, docTree, pages, vout>>

\* The --docs and --source arguments of sync-checker.js: the defaults, and
\* a directory that does not exist.
Configs == [docs : {DocsRoot, "no-such-dir"}, source : {SourceRoot, "no-such-dir"}]

\* node sync-checker.js [--docs d] [--source s], started at instant now.
RunMain ==
    /\ out = Idle
    /\ \E config \in Configs, now \in 1 .. MaxClock :
          out' = [tool |-> "sync-checker", config |-> config,
                  run |-> main(config, now, srcTree, docTree),
                  previous |-> NoFile]
    /\ UNCHANGED <<srcTree, docTree, pages, vout>>

\* The same command is run again, later, on the unchanged trees; the report
\* of the run before is kept for comparison.
RunMainAgain ==
    /\ out.tool = "sync-checker"
    /\ \E now \in 1 .. MaxClock :
          /\ out.run.analyzed => now > out.run.file.timestamp
          /\ out' = [tool |-> "sync-checker", config |-> out.config,
                     run |-> main(out.config, now, srcTree, docTree),
                     previous |-> out.run.file]
    /\ UNCHANGED <<srcTree, docTree, pages, vout>>

\* A file is created under the project root.
CreateFile ==
    /\ out = Idle
    /\ FileCount < MaxFiles
    /\ \E p \in ProjectPaths \ DOMAIN srcTree :
          srcTree' = Put(srcTree, p, Committed(0))
    /\ UNCHANGED <<docTree, out, pages, vout>>

\* The arguments objects a client sends with analyze_codebase.
PathArgs == {Absent, Given(Cwd), Given("no-such-dir")}

IncludeArgs ==
    {Absent,
     Given(<<Glob(<<>>, "md"), Glob(<<>>, "ts")>>),
     Given(<<Glob(<<>>, "ts"), Glob(<<"node_modules">>, "js"), Glob(<<"src">>, "ts")>>)}

ExcludeArgs == {Absent, Given(<<DirPattern("components")>>)}

DepthArgs == {Absent, Given("quick"), Given("standard"), Given("comprehensive")}

AnalyzeArguments ==
    [path : PathArgs, include_patterns : IncludeArgs,
     exclude_patterns : ExcludeArgs, depth : DepthArgs]

\* A client calls analyze_codebase, with an arguments object or without.
CallAnalyzeCodebase ==
    /\ out = Idle
    /\ \E args \in {Absent} \cup {Given(a) : a \in AnalyzeArguments} :
          out' = [tool |-> "analyze_codebase", arguments |-> args,
                  response |-> CallToolAnalyzeCodebase(args, srcTree)]
    /\ UNCHANGED <<srcTree, docTree, pages, vout>>

\* The validator and sync-checker.js are pointed at the project root: the
\* files their discovery passes return.
ListFiles ==
    /\ out = Idle
    /\ out' = [tool |-> "discovery",
               validator |-> globMd(srcTree, ProjectOrder),
               checker |-> findFiles(srcTree, ProjectOrder,
                                     {"ts", "tsx", "js", "jsx", "py"})
                             \o findFiles(srcTree, ProjectOrder, {"md", "mdx"})]
    /\ UNCHANGED <<srcTree, docTree, pages, vout>>

\* weekly-sync.sh:4-29 under cron: the environment is loaded and node
\* sync-checker.js runs on the default roots.  The script runs under
\* set -e: a command that exits non-zero ends the script with that status.
WeeklySyncCheck ==
    /\ out = Idle
    /\ \E slackWebhook \in BOOLEAN, emailTo \in BOOLEAN, now \in 1 .. MaxClock :
          LET run == main([docs |-> DocsRoot, source |-> SourceRoot], now,
                          srcTree, docTree)
          IN  out' = [tool |-> "weekly-sync.sh",
                      pc |-> IF run.exit # 0 THEN "exited" ELSE "status",
                      slackWebhook |-> slackWebhook, emailTo |-> emailTo,
                      checkExit |-> run.exit, syncStatus |-> 0,
                      slack |-> FALSE, mail |-> FALSE, exit |-> run.exit]
    /\ UNCHANGED <<srcTree, docTree, pages, vout>>

\* weekly-sync.sh:31-33, SYNC_STATUS=$?
WeeklySetStatus ==
    /\ out.tool = "weekly-sync.sh" /\ out.pc = "status"
    /\ out' = [out EXCEPT !.syncStatus = out.checkExit, !.pc = "slack"]
    /\ UNCHANGED <<srcTree, docTree, pages, vout>>

\* weekly-sync.sh:36-39: node notify-slack.js, which can fail.
WeeklySlack ==
    /\ out.tool = "weekly-sync.sh" /\ out.pc = "slack"
    /\ IF out.slackWebhook /\ out.syncStatus # 0
       THEN \E status \in {0, 1} :
               out' = [out EXCEPT !.slack = TRUE,
                                  !.pc = IF status # 0 THEN "exited" ELSE "mail",
                                  !.exit = status]
       ELSE out' = [out EXCEPT !.pc = "mail"]
    /\ UNCHANGED <<srcTree, docTree, pages, vout>>

\* weekly-sync.sh:42-49: mail, which can fail.
WeeklyMail ==
    /\ out.tool = "weekly-sync.sh" /\ out.pc = "mail"
    /\ IF out.emailTo /\ out.syncStatus # 0
       THEN \E status \in {0, 1} :
               out' = [out EXCEPT !.mail = TRUE,
                                  !.pc = IF status # 0 THEN "exited" ELSE "end",
                                  !.exit = status]
       ELSE out' = [out EXCEPT !.pc = "end"]
    /\ UNCHANGED <<srcTree, docTree, pages, vout>>

\* weekly-sync.sh:51-53, exit $SYNC_STATUS
WeeklyExit ==
    /\ out.tool = "weekly-sync.sh" /\ out.pc = "end"
    /\ out' = [out EXCEPT !.exit = out.syncStatus, !.pc = "exited"]
    /\ UNCHANGED <<srcTree, docTree, pages, vout>>

\* cron has collected the exit status; the trees can change again.
WeeklyDone ==
    /\ out.tool = "weekly-sync.sh" /\ out.pc = "exited"
    /\ out' = Idle
    /\ UNCHANGED <<srcTree, docTree, pages, vout>>

\* A frontmatter block with a title and a description, and one that does
\* not parse as YAML.
GoodFrontmatter ==
    [fence |-> TRUE, yamlOk |-> TRUE, title |-> "text", description |-> "text"]

BadFrontmatter ==
    [fence |-> TRUE, yamlOk |-> FALSE, title |-> "absent", description |-> "absent"]

\* A .md or .mdx file is created under ./docs.
CreatePage ==
    /\ vout = Idle
    /\ \E p \in Range(PageOrder) \ DOMAIN pages :
          pages' = Put(pages, p, NewPage(GoodFrontmatter))
    /\ UNCHANGED <<srcTree, docTree, out, vout>>

\* The frontmatter of a page is edited into one that does not parse.
BreakFrontmatter ==
    /\ vout = Idle
    /\ \E p \in DOMAIN pages \cap PagePaths :
          /\ pages[p].yamlOk
          /\ pages' = [pages EXCEPT ![p].fence = BadFrontmatter.fence,
                                    ![p].yamlOk = BadFrontmatter.yamlOk,
                                    ![p].title = BadFrontmatter.title,
                                    ![p].description = BadFrontmatter.description]
    /\ UNCHANGED <<srcTree, docTree, out, vout>>

\* A page loses its read permission (chmod a-r).
MakeUnreadable ==
    /\ vout = Idle
    /\ \E p \in DOMAIN pages \cap PagePaths :
          /\ pages[p].readable
          /\ pages' = [pages EXCEPT ![p].readable = FALSE]
    /\ UNCHANGED <<srcTree, docTree, out, vout>>

\* A link to guide or to missing-page is appended to a page.
WriteLink ==
    /\ vout = Idle
    /\ TreeMarks(pages) < MaxMarks
    /\ \E p \in DOMAIN pages \cap PagePaths, l \in Links \cup MissingPageLinks :
          pages' = [pages EXCEPT ![p].links = Append(@, l)]
    /\ UNCHANGED <<srcTree, docTree, out, vout>>

\* The docs_path arguments of the callers: ./docs, and a directory that
\* does not exist.
DocsPathArgs == {DocsRoot, "no-such-dir"}

\* glob("**/*.{md,mdx}", {cwd: docsPath}) and the reads under docsPath:
\* the pages under ./docs, and nothing under a directory that does not
\* exist (glob returns no match, it does not throw).
Under(docsPath, tree) == IF docsPath = DocsRoot THEN tree ELSE << >>

\* The CallTool handler's case "validate_documentation" (index.ts:354-369).
CallValidateDocumentation ==
    /\ vout = Idle
    /\ \E docs_path \in DocsPathArgs, options \in ValidationOptions :
          vout' = [tool |-> "validate_documentation", docsPath |-> docs_path,
                   options |-> options,
                   result |-> validate(Under(docs_path, pages), options)]
    /\ UNCHANGED <<srcTree, docTree, out, pages>>

\* The CallTool handler's case "validate_documentation" (index.ts:354-369):
\* the result of validate, or what it throws.
CallToolValidateDocumentation(a, docs) ==
    LET result ==
            validate(Under(a.docs_path, docs),
                     [strict |-> a.strict.given /\ a.strict.value,
                      checkLinks |-> ~(a.check_links.given /\ ~a.check_links.value),
                      checkCodeExamples |->
                          ~(a.check_code_examples.given /\ ~a.check_code_examples.value)])
    IN  IF Returned(result) THEN [content |-> result] ELSE result

\* The try block of the CallTool handler (index.ts:263-434) for three tool
\* names: the response it returns, or what is thrown in it.
TryCallTool(request, project, docs) ==
    IF ~request.arguments.given
    THEN McpError("InvalidParams")
    ELSE CASE request.name = "analyze_codebase" ->
                CallToolAnalyzeCodebase(request.arguments, project)
           [] request.name = "validate_documentation" ->
                CallToolValidateDocumentation(request.arguments.value, docs)
           [] OTHER -> McpError("MethodNotFound")

\* Whether a thrown value is an McpError.
IsMcpError(thrown) == "error" \in DOMAIN thrown

CatchWrapsAll(thrown) == McpError("InternalError")

\* The catch block (index.ts:435-441): what the handler throws for what
\* was thrown in the try block.
Catch(thrown) ==
    IF IsMcpError(thrown) THEN thrown ELSE McpError("InternalError")

\* The CallTool handler: the response, or the error it throws.
CallTool(request, project, docs) ==
    LET outcome == TryCallTool(request, project, docs)
    IN  IF "content" \in DOMAIN outcome THEN outcome ELSE Catch(outcome)

\* The arguments object {} of a call, for analyze_codebase.
NoAnalyzeArguments ==
    [path |-> Absent, include_patterns |-> Absent,
     exclude_patterns |-> Absent, depth |-> Absent]

\* The arguments objects a client sends with validate_documentation.
ValidateArguments ==
    [docs_path : DocsPathArgs, strict : {Absent, Given(TRUE)},
     check_links : {Absent, Given(FALSE)},
     check_code_examples : {Absent, Given(FALSE)}]

\* The tools/call requests of the model: two tools and a name that is no
\* tool, each with and without an arguments object.
Requests ==
    {[name |-> n, arguments |-> Absent] :
        n \in {"analyze_codebase", "validate_documentation", "no_such_tool"}}
    \cup {[name |-> n, arguments |-> Given(NoAnalyzeArguments)] :
             n \in {"analyze_codebase", "no_such_tool"}}
    \cup {[name |-> "validate_documentation", arguments |-> Given(a)] :
             a \in ValidateArguments}

\* A client sends a tools/call request.
SendCallTool ==
    /\ vout = Idle
    /\ \E request \in Requests :
          vout' = [tool |-> "CallTool", request |-> request,
                   thrown |-> TryCallTool(request, srcTree, pages),
                   response |-> CallTool(request, srcTree, pages)]
    /\ UNCHANGED <<srcTree, docTree, out, pages>>

(***************************************************************************)
(* MDXGenerator (mdx-generator.ts).                                        *)
(***************************************************************************)
\* mdx-generator.ts:289 and 344: the pages written for the APIs and for
\* the components.
PageLimit == 10

\* The files of the project that is documented, in the order discovery
\* lists them: eleven API files and a component.
GenOrder ==
    << Path(<<"src", "api">>, "Users", "ts"),
       Path(<<"src", "api">>, "auth", "ts"),
       Path(<<"src", "api">>, "billing", "ts"),
       Path(<<"src", "api">>, "cart", "ts"),
       Path(<<"src", "api">>, "events", "ts"),
       Path(<<"src", "api">>, "files", "ts"),
       Path(<<"src", "api">>, "groups", "ts"),
       Path(<<"src", "api">>, "hooks", "ts"),
       Path(<<"src", "api">>, "items", "ts"),
       Path(<<"src", "api">>, "jobs", "ts"),
       Path(<<"src", "api">>, "keys", "ts"),
       Path(<<"src", "components">>, "Button", "tsx") >>

GenPaths == {GenOrder[i] : i \in DOMAIN GenOrder}

\* String.prototype.toLowerCase on the names of the model.
toLowerCase(name) ==
    CASE name = "Users" -> "users"
      [] name = "Button" -> "button"
      [] OTHER -> name

\* The pages generate can write, in the order glob lists them.
GeneratedOrder ==
    [i \in 1 .. 11 |-> Path(<<"api">>, toLowerCase(GenOrder[i].stem), "mdx")]
    \o << Path(<<"api">>, "overview", "mdx"),
          Path(<<"components">>, "button", "mdx"),
          Path(<<"guides">>, "overview", "mdx"),
          Path(<<>>, "introduction", "mdx"),
          Path(<<>>, "quickstart", "mdx") >>

\* The analysis of the files discovered in a project: its apis and its
\* components (analyze, codebase-analyzer.ts:112-113).
AnalysisOf(tree, depth) ==
    LET files == SelectSeq(GenOrder, LAMBDA f : f \in DOMAIN tree)
    IN  [apis |-> extractAPIs(files, depth),
         components |-> extractComponents(files)]

\* matter.stringify(text, {title, description}) of a text with these links
\* and fenced blocks.
Stringify(links, blocks) ==
    [NewPage(GoodFrontmatter) EXCEPT !.links = links, !.blocks = blocks]

TypeScriptBlock == [lang |-> TRUE, blank |-> FALSE]

\* The link [`name`](/api/name) of the overview page.
ApiLink(api) ==
    [kind |-> "root", dir |-> <<"api">>, name |-> toLowerCase(api.name)]

\* generateAPIPages written over tree: api/overview.mdx with a link for
\* every API, then a page for each of the first ten APIs.
generateAPIPages(analysis, tree) ==
    LET overviewPath == Path(<<"api">>, "overview", "mdx")
        first == Slice(analysis.apis, PageLimit)
        apiPaths ==
            {Path(<<"api">>, toLowerCase(first[i].name), "mdx") : i \in DOMAIN first}
    IN  [q \in DOMAIN tree \cup {overviewPath} \cup apiPaths |->
            IF q \in apiPaths
            THEN Stringify(<<>>, <<TypeScriptBlock, TypeScriptBlock>>)
            ELSE IF q = overviewPath
            THEN Stringify([i \in DOMAIN analysis.apis |-> ApiLink(analysis.apis[i])],
                           <<>>)
            ELSE tree[q]]

\* generateComponentPages written over tree.
generateComponentPages(analysis, tree) ==
    LET first == Slice(analysis.components, PageLimit)
        compPaths ==
            {Path(<<"components">>, toLowerCase(first[i].name), "mdx") :
                i \in DOMAIN first}
    IN  [q \in DOMAIN tree \cup compPaths |->
            IF q \in compPaths THEN Stringify(<<>>, <<TypeScriptBlock>>)
            ELSE tree[q]]

\* MDXGenerator.generate(analysis, options) written over tree, the
\* content of options.outputDir.  The introduction, the quickstart and the
\* guides overview hold no [text](url) link; their code blocks are left
\* out.
generate(analysis, options, tree) ==
    LET intro == Put(tree, Path(<<>>, "introduction", "mdx"), Stringify(<<>>, <<>>))
        quick == Put(intro, Path(<<>>, "quickstart", "mdx"), Stringify(<<>>, <<>>))
        apis == IF options.includeApiReference /\ Len(analysis.apis) > 0
                THEN generateAPIPages(analysis, quick) ELSE quick
        comps == IF Len(analysis.components) > 0
                 THEN generateComponentPages(analysis, apis) ELSE apis
    IN  Put(comps, Path(<<"guides">>, "overview", "mdx"), Stringify(<<>>, <<>>))

\* A file is added to the project.
AddProjectFile ==
    /\ out = Idle
    /\ \E p \in GenPaths \ DOMAIN srcTree :
          srcTree' = Put(srcTree, p, Committed(0))
    /\ UNCHANGED <<docTree, out, pages, vout>>

\* The project is analysed and generate writes the documentation of the
\* analysis into an empty output directory.
CallGenerateDocumentation ==
    /\ out = Idle
    /\ \E depth \in {"quick", "standard"}, includeApiReference \in BOOLEAN :
          LET analysis == AnalysisOf(srcTree, depth)
          IN  /\ pages' = generate(analysis,
                                   [includeApiReference |-> includeApiReference],
                                   pages)
              /\ out' = [tool |-> "generate_documentation", depth |-> depth,
                         includeApiReference |-> includeApiReference,
                         apis |-> Len(analysis.apis)]
    /\ UNCHANGED <<srcTree, docTree, vout>>

\* validate runs on the output directory that generate has just written.
ValidateGenerated ==
    /\ out # Idle
    /\ vout = Idle
    /\ \E checkLinks \in BOOLEAN :
          LET options == [strict |-> FALSE, checkLinks |-> checkLinks,
                          checkCodeExamples |-> TRUE]
          IN  vout' = [tool |-> "validate_generated", options |-> options,
                       result |-> validateOrdered(pages, GeneratedOrder, options)]
    /\ UNCHANGED <<srcTree, docTree, out, pages>>

\* The output directory is removed.
RemoveOutputDir ==
    /\ out # Idle
    /\ out' = Idle
    /\ pages' = << >>
    /\ vout' = Idle
    /\ UNCHANGED <<srcTree, docTree>>

Init ==
    /\ srcTree = << >>
    /\ docTree = << >>
    /\ out = Idle
    /\ pages = << >>
    /\ vout = Idle

Next ==
    \/ CommitSource
    \/ CommitDoc
    \/ RemoveSource
    \/ RemoveDoc
    \/ RunSyncChecker
    \/ RunCheckDocsSync
    \/ CallSyncDocumentation
    \/ Finish

Spec == Init /\ [][Next]_vars

\* The validator and the pre-commit hook over the pages.
ValNext ==
    \/ WriteFrontmatter
    \/ AddLink
    \/ AddBlock
    \/ AddLocalhost
    \/ AddImage
    \/ RemovePage
    \/ RunValidate
    \/ RunValidateDocsSh
    \/ FinishValidation

ValSpec == Init /\ [][ValNext]_vars

\* sync-checker.js from its command line, over files of which git knows a
\* commit, no commit, or nothing.
CheckerNext ==
    \/ WriteSource
    \/ WriteDoc
    \/ RemoveSource
    \/ RemoveDoc
    \/ StatFile
    \/ RunMain
    \/ RunMainAgain
    \/ Finish

CheckerSpec == Init /\ [][CheckerNext]_vars

\* weekly-sync.sh, step by step, over the same files.
WeeklyNext ==
    \/ WriteSource
    \/ WriteDoc
    \/ RemoveSource
    \/ RemoveDoc
    \/ WeeklySyncCheck
    \/ WeeklySetStatus
    \/ WeeklySlack
    \/ WeeklyMail
    \/ WeeklyExit
    \/ WeeklyDone

WeeklySpec == Init /\ [][WeeklyNext]_vars

\* The generator, and the validator over what it wrote.
GeneratorNext ==
    \/ AddProjectFile
    \/ CallGenerateDocumentation
    \/ ValidateGenerated
    \/ RemoveOutputDir

GeneratorSpec == Init /\ [][GeneratorNext]_vars

\* The CallTool handler over pages that may not be readable.
HandlerNext ==
    \/ CreatePage
    \/ BreakFrontmatter
    \/ MakeUnreadable
    \/ RemovePage
    \/ SendCallTool
    \/ FinishValidation

HandlerSpec == Init /\ [][HandlerNext]_vars

\* The analyzer and the discovery passes over the files of a project; here
\* srcTree is the tree under the project root.
AnalyzerNext ==
    \/ CreateFile
    \/ RemoveSource
    \/ CallAnalyzeCodebase
    \/ ListFiles
    \/ Finish

AnalyzerSpec == Init /\ [][AnalyzerNext]_vars

\* The validate_documentation tool over pages that link to each other, that
\* may not parse and that may not be readable.
DocsNext ==
    \/ CreatePage
    \/ BreakFrontmatter
    \/ MakeUnreadable
    \/ WriteLink
    \/ RemovePage
    \/ CallValidateDocumentation
    \/ FinishValidation

DocsSpec == Init /\ [][DocsNext]_vars


(***************************************************************************)
(* The claims about drift detection, each over the report of the last run  *)
(* and the trees it ran on (the trees do not change until Finish).         *)
(***************************************************************************)
Entries(s) == {s[i] : i \in DOMAIN s}

\* The claims' reading of "modification instant": what the provider returns.
SourceModified(p) == getLastModified(srcTree, p)
DocModified(p) == getLastModified(docTree, p)

\* The spec's mapping of a doc path to its source candidate (.md, .mdx -> .ts).
MappedSource(d) == [d EXCEPT !.ext = "ts"]

\* The spec's mapping of a source path to its doc candidate (extension .mdx).
MappedDoc(s) == [s EXCEPT !.ext = "mdx"]

\* The docs a run discovers whose source candidate exists.
PairedDocs ==
    {d \in DOMAIN docTree : d.ext \in {"md", "mdx"} /\ MappedSource(d) \in DOMAIN srcTree}

\* C1: every outdated entry of analyzeSync for a pair with sourceModified >
\* docModified has daysBehind = floor((sourceModified - docModified) / 86400),
\* and priority high iff daysBehind > 7, medium iff 4 <= daysBehind <= 7,
\* low iff 1 <= daysBehind <= 3.
C1_DaysBehindAndPriority ==
    out.tool = "analyzeSync" =>
        \A e \in Entries(out.report.outdated) :
            LET diff == SourceModified(e.source) - DocModified(e.doc)
            IN  diff > 0 =>
                  /\ e.daysBehind * 86400 <= diff
                  /\ diff < (e.daysBehind + 1) * 86400
                  /\ (e.priority = "high") <=> (e.daysBehind > 7)
                  /\ (e.priority = "medium") <=> (4 <= e.daysBehind /\ e.daysBehind <= 7)
                  /\ (e.priority = "low") <=> (1 <= e.daysBehind /\ e.daysBehind <= 3)

\* C1 witness: one report lists a doc 7 days behind as medium and a doc
\* 8 days behind as high.
C1_Witness ==
    /\ out.tool = "analyzeSync"
    /\ \E e \in Entries(out.report.outdated) :
          e.daysBehind = 7 /\ e.priority = "medium"
    /\ \E e \in Entries(out.report.outdated) :
          e.daysBehind = 8 /\ e.priority = "high"

\* C2: the status of a report of analyzeSync is 'incomplete' if missing is
\* non-empty, otherwise 'outdated' if outdated is non-empty, otherwise
\* 'synced'.
C2_StatusDerived ==
    out.tool = "analyzeSync" =>
        out.report.status =
            (IF out.report.missing # <<>> THEN "incomplete"
             ELSE IF out.report.outdated # <<>> THEN "outdated" ELSE "synced")

\* C2 witness: outdated and missing entries in one report, status incomplete.
C2_Witness ==
    /\ out.tool = "analyzeSync"
    /\ out.report.outdated # <<>>
    /\ out.report.missing # <<>>
    /\ out.report.status = "incomplete"

\* C3: a doc whose mapped source exists and has the same modification
\* instant is in no outdated entry, of analyzeSync and of checkSync.
C3_EqualIsNotDrift ==
    out.tool \in {"analyzeSync", "checkSync"} =>
        \A d \in PairedDocs :
            SourceModified(MappedSource(d)) = DocModified(d) =>
                \A e \in Entries(out.report.outdated) : e.doc # d

\* C3 witness: analyzeSync has run over a pair of equal instants and
\* counted it up to date.
C3_Witness ==
    /\ out.tool = "analyzeSync"
    /\ \E d \in PairedDocs : SourceModified(MappedSource(d)) = DocModified(d)
    /\ out.report.summary.upToDate > 0

\* C4 as claimed: every discovered doc whose source candidate is newer by
\* any positive amount is in an outdated entry of analyzeSync.
C4_AnyPositiveDifferenceIsOutdated ==
    out.tool = "analyzeSync" =>
        \A d \in PairedDocs :
            SourceModified(MappedSource(d)) > DocModified(d) =>
                \E e \in Entries(out.report.outdated) : e.doc = d

\* C4 amended: a discovered doc whose source candidate is newer is in an
\* outdated entry of analyzeSync iff the source is newer by at least one
\* whole day (86400 seconds).
C4_WholeDayDifferenceIsOutdated ==
    out.tool = "analyzeSync" =>
        \A d \in PairedDocs :
            LET diff == SourceModified(MappedSource(d)) - DocModified(d)
            IN  diff > 0 =>
                  ((\E e \in Entries(out.report.outdated) : e.doc = d) <=> diff >= 86400)

\* C4 witness: a source exactly one day newer than its doc, listed.
C4_Witness ==
    /\ out.tool = "analyzeSync"
    /\ \E d \in PairedDocs :
          /\ SourceModified(MappedSource(d)) - DocModified(d) = 86400
          /\ \E e \in Entries(out.report.outdated) : e.doc = d /\ e.daysBehind = 1

\* C5: every outdated entry of analyzeSync and of checkSync has
\* daysBehind >= 1, and a pair 0 days apart never makes checkSync report
\* the tree out of sync.
C5_OutdatedAtLeastOneDay ==
    /\ out.tool \in {"analyzeSync", "checkSync"} =>
          \A e \in Entries(out.report.outdated) : e.daysBehind >= 1
    /\ (/\ out.tool = "checkSync"
        /\ out.report.missing = <<>>
        /\ \A d \in PairedDocs :
              SourceModified(MappedSource(d)) - DocModified(d) < 86400)
          => out.report.inSync

\* The source files a run of analyzeSync discovers under an API-like path
\* segment.
ApiLikeSources ==
    {s \in DOMAIN srcTree :
        /\ s.ext \in {"ts", "tsx", "js", "jsx", "py"}
        /\ \E i \in DOMAIN s.dir : s.dir[i] \in {"api", "routes", "components"}}

\* C6: missing holds exactly one entry for each discovered API-like source
\* with no doc at its mapped candidate path and none for any other source,
\* priority high under /api/ and medium otherwise, and any entry makes the
\* status incomplete.
C6_MissingExactlyUndocumentedApi ==
    out.tool = "analyzeSync" =>
        LET undocumented == {s \in ApiLikeSources : MappedDoc(s) \notin DOMAIN docTree}
            missing == out.report.missing
        IN  /\ \A s \in undocumented :
                  Cardinality({i \in DOMAIN missing : missing[i].source = s}) = 1
            /\ \A e \in Entries(missing) :
                  /\ e.source \in undocumented
                  /\ e.priority = (IF \E i \in DOMAIN e.source.dir : e.source.dir[i] = "api"
                                   THEN "high" ELSE "medium")
            /\ (missing # <<>> => out.report.status = "incomplete")

\* A docs page whose mapped source was modified at least one day after it.
StalePages ==
    {d \in PairedDocs : SourceModified(MappedSource(d)) - DocModified(d) >= 86400}

\* C7: when a page of the docs tree is at least one day older than its
\* mapped source, the report of sync_documentation has a non-empty outdated
\* list and a status other than 'synced'.
C7_SyncDocumentationDetectsStale ==
    (out.tool = "sync_documentation" /\ StalePages # {}) =>
        /\ out.report.outdated # <<>>
        /\ out.report.status # "synced"


(***************************************************************************)
(* The claims about validation, each over the result of the last run and   *)
(* the pages it ran on (the pages do not change until FinishValidation).   *)
(***************************************************************************)
\* How many entries of a list are about a file and of a type.
CountOf(list, file, type) ==
    Cardinality({i \in DOMAIN list : list[i].file = file /\ list[i].type = type})

\* The pages whose frontmatter parses.
ParsedPages == {p \in DOMAIN pages : pages[p].fence /\ pages[p].yamlOk}

\* C8: valid is true iff the errors list of validate is empty, whatever the
\* warnings, and validate-docs.sh exits non-zero iff its error count is
\* positive.
C8_ValidIffNoErrors ==
    /\ vout.tool = "validate" =>
          (vout.result.valid <=> vout.result.errors = <<>>)
    /\ vout.tool = "validate-docs.sh" =>
          (vout.result.exit # 0 <=> vout.result.errors > 0)

\* C8 witness: a result with warnings and no errors is valid.
C8_Witness ==
    /\ vout.tool = "validate"
    /\ vout.result.warnings # <<>>
    /\ vout.result.errors = <<>>
    /\ vout.result.valid

\* C9: a page whose frontmatter has a description (with text) and no title
\* key has exactly one missing_frontmatter error in the result of validate,
\* with strict false and with strict true.
C9_NoTitleOneError ==
    vout.tool = "validate" =>
        \A p \in ParsedPages :
            (pages[p].title = "absent" /\ pages[p].description = "text") =>
                CountOf(vout.result.errors, p, "missing_frontmatter") = 1

\* C9 witness: such a page validated with strict true, alone in its error.
C9_Witness ==
    /\ vout.tool = "validate"
    /\ vout.options.strict
    /\ \E p \in ParsedPages :
          /\ pages[p].title = "absent" /\ pages[p].description = "text"
          /\ CountOf(vout.result.errors, p, "missing_frontmatter") = 1

\* C10: a page whose frontmatter has a title and no description has a
\* warning in warnings and does not make the result invalid when strict is
\* false, and has an error in errors, valid false, when strict is true.
C10_NoDescriptionWarnsOrFails ==
    vout.tool = "validate" =>
        \A p \in ParsedPages :
            (pages[p].title = "text" /\ pages[p].description = "absent") =>
                IF vout.options.strict
                THEN /\ CountOf(vout.result.errors, p, "missing_frontmatter") >= 1
                     /\ ~vout.result.valid
                ELSE /\ CountOf(vout.result.warnings, p, "missing_frontmatter") >= 1
                     /\ CountOf(vout.result.errors, p, "missing_frontmatter") = 0


(***************************************************************************)
(* The claims about links, roots and unreadable files, each over the       *)
(* result of the last validate_documentation call.                         *)
(***************************************************************************)
\* The call ran over ./docs with checkLinks on and returned a result.
LinksChecked ==
    /\ vout.tool = "validate_documentation"
    /\ vout.docsPath = DocsRoot
    /\ vout.options.checkLinks
    /\ Returned(vout.result)

\* How many times page p holds link l, and how many broken_link errors the
\* result has for it.
LinkCount(p, l) ==
    Cardinality({i \in DOMAIN pages[p].links : pages[p].links[i] = l})

BrokenCount(p, l) ==
    Cardinality({i \in DOMAIN vout.result.errors :
                    /\ vout.result.errors[i].file = p
                    /\ vout.result.errors[i].type = "broken_link"
                    /\ vout.result.errors[i].url = l})

\* One of target, target.mdx, target.md and target/index.mdx exists under
\* the documentation root.
UnderDocsRoot(l) ==
    \/ pathExists(pages, l.dir, l.name, "")
    \/ pathExists(pages, l.dir, l.name, "mdx")
    \/ pathExists(pages, l.dir, l.name, "md")
    \/ pathExists(pages, l.dir \o <<l.name>>, "index", "mdx")

DotSlashMissingPage == [kind |-> "relative", dir |-> <<>>, name |-> "missing-page"]

\* C11: a link ./missing-page in a page has exactly one broken_link error
\* when none of missing-page, missing-page.mdx, missing-page.md and
\* missing-page/index.mdx exists under the documentation root, and has none
\* in any run made once missing-page.mdx exists under the root.
C11_MissingPageBrokenUntilCreated ==
    LinksChecked =>
        \A p \in DOMAIN pages :
            LinkCount(p, DotSlashMissingPage) > 0 =>
                /\ ~UnderDocsRoot(DotSlashMissingPage) =>
                      BrokenCount(p, DotSlashMissingPage)
                          = LinkCount(p, DotSlashMissingPage)
                /\ Path(<<>>, "missing-page", "mdx") \in DOMAIN pages =>
                      BrokenCount(p, DotSlashMissingPage) = 0

\* C12: every link that is not external is looked up under the
\* documentation root, whatever the directory of the page: it has no
\* broken_link error iff one of its four candidates exists there, and one
\* error per occurrence otherwise.
C12_LinksResolvedAgainstDocsRoot ==
    LinksChecked =>
        \A p \in DOMAIN pages :
            \A l \in Range(pages[p].links) :
                l.kind # "external" =>
                    BrokenCount(p, l)
                        = IF UnderDocsRoot(l) THEN 0 ELSE LinkCount(p, l)

\* C13: a validate_documentation call on a docs root that does not exist
\* does not return a ValidationResult (in particular not valid = TRUE with
\* total_files = 0): it fails.
C13_MissingRootFails ==
    (vout.tool = "validate_documentation" /\ vout.docsPath # DocsRoot) =>
        ~Returned(vout.result)

\* The pages that cannot be read, or whose frontmatter does not parse.
FailingPages ==
    {p \in DOMAIN pages : ~pages[p].readable \/ (pages[p].fence /\ ~pages[p].yamlOk)}

\* C16: a page that cannot be read or parsed never aborts validate: a
\* ValidationResult is returned, it has an invalid_frontmatter error for
\* each such page, and every page was validated.
C16_BadFileNeverAborts ==
    (vout.tool = "validate_documentation" /\ vout.docsPath = DocsRoot) =>
        /\ Returned(vout.result)
        /\ \A p \in FailingPages :
              CountOf(vout.result.errors, p, "invalid_frontmatter") >= 1
        /\ vout.result.summary.total_files = Cardinality(DOMAIN pages)


(***************************************************************************)
(* The claims about sync-checker.js as a command.                          *)
(***************************************************************************)
\* C14: when the docs root or the source root does not exist, sync-checker
\* exits non-zero, analyzeSync is not called and no report file is written.
C14_MissingRootFailsFast ==
    (out.tool = "sync-checker"
        /\ (~RootExists(out.config.docs) \/ ~RootExists(out.config.source))) =>
        /\ out.run.exit # 0
        /\ ~out.run.analyzed
        /\ out.run.file = NoFile

\* C14 witness: the source root alone is missing, over trees that hold
\* files; the run exited 1 without a report.
C14_Witness ==
    /\ out.tool = "sync-checker"
    /\ RootExists(out.config.docs) /\ ~RootExists(out.config.source)
    /\ DOMAIN srcTree # {} /\ DOMAIN docTree # {}
    /\ out.run.exit = 1
    /\ out.run.file = NoFile

\* C15: getLastModified returns the time of the last commit of a file that
\* has one, and the modification time of the filesystem whenever there is
\* no commit: for an untracked file in a repository as well as when the git
\* command fails.
C15_CommitTimeElseMtime ==
    out.tool = "getLastModified" =>
        out.result = IF out.info.git = "commit"
                     THEN out.info.commit
                     ELSE out.info.mtime

\* A report without its timestamp.
WithoutTimestamp(report) ==
    [field \in DOMAIN report \ {"timestamp"} |-> report[field]]

Served == out.tool = "analyze_codebase" /\ "content" \in DOMAIN out.response

\* A path under node_modules, dist, build or .git, or a minified asset.
DefaultExcluded(p) ==
    \/ \E i \in DOMAIN p.dir : p.dir[i] \in {"node_modules", "dist", "build", ".git"}
    \/ IsMinJs(p)

\* C17: no path under node_modules, dist, build or .git and no minified
\* asset is returned by discoverFiles of the analyzer, by the glob of the
\* validator or by findFiles of sync-checker, whatever include and exclude
\* patterns the caller gives.
C17_DefaultExcludesAlwaysApply ==
    /\ Served =>
          \A i \in DOMAIN out.response.content.files :
              ~DefaultExcluded(out.response.content.files[i])
    /\ out.tool = "discovery" =>
          /\ \A i \in DOMAIN out.validator : ~DefaultExcluded(out.validator[i])
          /\ \A i \in DOMAIN out.checker : ~DefaultExcluded(out.checker[i])

\* A need of a type and a priority for an item of a file is listed.
HasNeed(needs, file, item, priority) ==
    \E i \in DOMAIN needs :
        /\ needs[i].type = "missing"
        /\ needs[i].priority = priority
        /\ needs[i].file = file
        /\ needs[i].item = item

\* An extracted API or Component without a description.
Undescribed(entry) ==
    "description" \notin DOMAIN entry \/ Falsy(entry.description)

\* C18: in documentation_needs every extracted API and every extracted
\* Component without a description has a need missing/medium, and the
\* README need missing/high is listed iff no discovered file is README-like.
C18_NeedsForUndescribedAndReadme ==
    Served =>
        LET analysis == out.response.content
            needs == analysis.documentation_needs
        IN  /\ \A i \in DOMAIN analysis.apis :
                  Undescribed(analysis.apis[i]) =>
                      HasNeed(needs, analysis.apis[i].file,
                              analysis.apis[i].name, "medium")
            /\ \A i \in DOMAIN analysis.components :
                  Undescribed(analysis.components[i]) =>
                      HasNeed(needs, analysis.components[i].file,
                              analysis.components[i].name, "medium")
            /\ HasNeed(needs, ReadmeFile, "Project README", "high")
                  <=> ~\E i \in DOMAIN analysis.files :
                          PathIncludes(analysis.files[i], "readme")

\* C20: an analyze_codebase call without an arguments object is served
\* with the analysis of the current working directory at depth standard,
\* not rejected.
C20_NoArgumentsIsServed ==
    (out.tool = "analyze_codebase" /\ ~out.arguments.given) =>
        /\ Served
        /\ out.response.content
              = analyze(srcTree, [includePatterns |-> Absent,
                                  excludePatterns |-> Absent,
                                  depth |-> "standard"])


(***************************************************************************)
(* The claims about weekly-sync.sh.                                        *)
(***************************************************************************)
\* C21: when the sync check of weekly-sync.sh ended with a non-zero status
\* and a Slack webhook is configured, the script has run the Slack
\* notification by the time it exits, and it exits with the status of the
\* sync check.
C21_NotifiesAndExitsWithStatus ==
    (out.tool = "weekly-sync.sh" /\ out.pc = "exited") =>
        /\ (out.checkExit # 0 /\ out.slackWebhook) => out.slack
        /\ out.exit = out.checkExit


(***************************************************************************)
(* More claims about the report of analyzeSync and the trees it ran on.    *)
(***************************************************************************)
\* The docs a run discovers whose source candidate does not exist.
UnpairedDocs ==
    {d \in DOMAIN docTree :
        d.ext \in {"md", "mdx"} /\ MappedSource(d) \notin DOMAIN srcTree}

C23_ExpectedDocIsMdx ==
    out.tool = "analyzeSync" =>
        /\ \A e \in Entries(out.report.missing) :
              /\ e.expectedDoc = MappedDoc(e.source)
              /\ e.expectedDoc.ext = "mdx"
        /\ \A s \in ApiLikeSources :
              MappedDoc(s) \in DOMAIN docTree =>
                  \A e \in Entries(out.report.missing) : e.source # s

\* C24: the two mappings of analyzeSync are inverses on the discovered
\* source files: the doc candidate of a source maps back to that source,
\* so a source with a doc at its candidate path is the file that doc is
\* compared with, and the doc is listed outdated when the source is at
\* least a day newer.
C24_MappingsAreInverses ==
    out.tool = "analyzeSync" =>
        \A s \in DOMAIN srcTree :
            /\ DocToSource(SourceToDoc(s)) = s
            /\ (/\ SourceToDoc(s) \in DOMAIN docTree
                /\ IsOutdated(DaysBehind(SourceModified(s),
                                         DocModified(SourceToDoc(s))))) =>
                  \E e \in Entries(out.report.outdated) :
                      e.doc = SourceToDoc(s) /\ e.source = s


(***************************************************************************)
(* More claims about the result of validate and the pages it ran on.       *)
(***************************************************************************)
\* The files that have an entry in a list of issues.
FilesIn(list) == {list[i].file : i \in DOMAIN list}

\* C25: files_with_errors is the number of validated files with at least
\* one frontmatter error or, with checkLinks on, one link error; a file with
\* only code-block or heuristic warnings is not counted, and
\* files_with_errors <= total_files.
C25_FilesWithErrorsCounted ==
    vout.tool = "validate" =>
        LET result == vout.result
            erring == {p \in DOMAIN pages :
                          \/ validateFrontmatter(p, pages[p], vout.options) # <<>>
                          \/ /\ vout.options.checkLinks
                             /\ validateLinks(p, pages[p], pages) # <<>>}
        IN  /\ result.summary.files_with_errors = Cardinality(erring)
            /\ erring = FilesIn(result.errors)
            /\ result.summary.files_with_errors <= result.summary.total_files
            /\ result.summary.total_files = Cardinality(DOMAIN pages)

\* C25 witness: of two validated files, one with a warning only and one
\* with an error, one is counted.
C25_Witness ==
    /\ vout.tool = "validate"
    /\ vout.result.summary.total_files = 2
    /\ vout.result.summary.files_with_errors = 1
    /\ FilesIn(vout.result.warnings) \ FilesIn(vout.result.errors) # {}

\* The frontmatter check of a page has an error in the result.
FrontmatterFailed(p) ==
    CountOf(vout.result.errors, p, "missing_frontmatter")
        + CountOf(vout.result.errors, p, "invalid_frontmatter") > 0

\* C26: the checks do not short-circuit: whatever the frontmatter check of
\* a file or of an earlier file reported, every broken link of a file has
\* its error when checkLinks is on, every code block its warnings when
\* checkCodeExamples is on, and the heuristic warnings are always there.
C26_ChecksDoNotShortCircuit ==
    vout.tool = "validate" =>
        \A p \in DOMAIN pages :
            LET c == pages[p]
                brokenLinks == {i \in DOMAIN c.links :
                                   /\ c.links[i].kind # "external"
                                   /\ ~LinkResolves(pages, p, c.links[i])}
                noLanguage == {i \in DOMAIN c.blocks : ~c.blocks[i].lang}
                blank == {i \in DOMAIN c.blocks : c.blocks[i].blank}
            IN  /\ vout.options.checkLinks =>
                      CountOf(vout.result.errors, p, "broken_link")
                          = Cardinality(brokenLinks)
                /\ vout.options.checkCodeExamples =>
                      /\ CountOf(vout.result.warnings, p, "missing_code_language")
                            = Cardinality(noLanguage)
                      /\ CountOf(vout.result.warnings, p, "empty_code_block")
                            = Cardinality(blank)
                /\ CountOf(vout.result.warnings, p, "absolute_internal_url")
                      = (IF c.localhost THEN 1 ELSE 0)
                /\ CountOf(vout.result.warnings, p, "missing_alt_text")
                      = (IF c.noAlt THEN 1 ELSE 0)

\* C26 witness: the first of two files has an invalid_frontmatter error and
\* a broken_link error, and the second one a frontmatter error as well.
C26_Witness ==
    /\ vout.tool = "validate"
    /\ vout.result.errors # <<>>
    /\ \E p, q \in DOMAIN pages :
          /\ p # q
          /\ vout.result.errors[1].file = p
          /\ CountOf(vout.result.errors, p, "invalid_frontmatter") > 0
          /\ CountOf(vout.result.errors, p, "broken_link") > 0
          /\ FrontmatterFailed(q)

\* C28: for every choice of strict, checkLinks and checkCodeExamples, the
\* entries of errors all have severity error, and a result without an
\* error of severity error is valid.
C28_ErrorsHaveSeverityError ==
    vout.tool = "validate" =>
        /\ \A i \in DOMAIN vout.result.errors :
              vout.result.errors[i].severity = "error"
        /\ (\A i \in DOMAIN vout.result.errors :
                vout.result.errors[i].severity # "error") => vout.result.valid


(***************************************************************************)
(* The summary of the report of analyzeSync.                               *)
(***************************************************************************)
\* C30: outdatedDocs is the length of outdated and missingDocs the length
\* of missing; no doc is listed twice in outdated, upToDate counts the
\* compared docs that are not listed, and outdatedDocs + upToDate is at
\* most totalDocFiles.
C30_SummaryAgreesWithLists ==
    out.tool = "analyzeSync" =>
        LET report == out.report
            listed == {report.outdated[i].doc : i \in DOMAIN report.outdated}
        IN  /\ report.summary.outdatedDocs = Len(report.outdated)
            /\ report.summary.missingDocs = Len(report.missing)
            /\ Cardinality(listed) = Len(report.outdated)
            /\ listed \subseteq PairedDocs
            /\ report.summary.upToDate = Cardinality(PairedDocs \ listed)
            /\ report.summary.outdatedDocs + report.summary.upToDate
                  <= report.summary.totalDocFiles
            /\ report.summary.totalDocFiles = Cardinality(DOMAIN docTree)

\* C30 witness: a report with an outdated doc and a missing doc.
C30_Witness ==
    /\ out.tool = "analyzeSync"
    /\ out.report.summary.outdatedDocs = 1
    /\ out.report.summary.missingDocs = 1
    /\ Len(out.report.outdated) = 1
    /\ Len(out.report.missing) = 1


C29_GeneratedLinksResolve ==
    (vout.tool = "validate_generated" /\ vout.options.checkLinks) =>
        /\ Returned(vout.result)
        /\ \A i \in DOMAIN vout.result.errors :
              vout.result.errors[i].type # "broken_link"

=============================================================================
